---------------------------- MODULE Spec2Model ----------------------------
(***************************************************************************)
(* Model of the vehicle trace engine (Trace.py, GeoShapes.py,              *)
(* TraceMatch.py).                                                         *)
(*                                                                         *)
(* Numbers.  The code computes in double precision floats; the model       *)
(* computes in fixed point, rounding down:                                 *)
(*   lengths     in 1/Res metre                                            *)
(*   angles      in microradians (PI = 3141592)                            *)
(*   qualities   in 1/QOne                                                 *)
(* The values the floats produce exactly (the direction of an axis         *)
(* parallel vector, the length of an axis parallel edge) are exact in the  *)
(* model as well.                                                          *)
(***************************************************************************)
EXTENDS Integers, Sequences, FiniteSets, TLC

(***************************************************************************)
(* Resolution of the fixed point numbers.                                  *)
(***************************************************************************)
Res == 10

QOne == 100 * 100

PI == 3141592

TwoPI == 2 * PI

HalfPI == 1570796

(***************************************************************************)
(* Program constants (Trace.py, class attributes), in metres, degrees      *)
(* or plain numbers as in the source.                                      *)
(***************************************************************************)
TRACE_MIN_DIST == 10

TRACE_MAX_DIST == 200

TRACE_MAX_OFFSET == 10

TRACE_MAX_HEDINGDELTA == 785398

TRACE_N_MAX == 16

MATCH_MAX_OFFSET == 20

MATCH_MAX_HEADINGDELTA == 1047198

MATCH_DIST_SMOOTH == 20

AREA_WIDTH_OVERFLOW == 30

QUALITY_DELTA == QOne \div 100

\* TraceMatch.py: the distance of a fresh TraceMatch (9999.0 m) and the
\* status values.
DEFAULT_MATCH_DISTANCE == 9999

STATUS_MATCH == 0

STATUS_NO_MATCH_RELEVANCE_AREA == 1

STATUS_NO_MATCH_HEADING == 2

STATUS_NO_MATCH_TRACE == 3

STATUS_NO_MATCH_UNDEFINED == 4

\* matchToPosition: the value 9999 of bmoffset while no edge has matched.
NO_OFFSET == 9999

MIN_EVALUATION_TRACE_LENGHT == 1000
TRACE_LENGTH_MAX == 2500

(***************************************************************************)
(* Arithmetic helpers.                                                     *)
(***************************************************************************)
Abs(a) == IF a < 0 THEN -a ELSE a

Max(a, b) == IF a >= b THEN a ELSE b

Min(a, b) == IF a <= b THEN a ELSE b

\* math.sqrt, rounded down: the largest r with r*r <= n, found bit by bit.
RECURSIVE SqrtBits(_, _, _)
SqrtBits(n, r, bit) ==
    IF bit = 0 THEN r
    ELSE IF r + bit <= n \div (r + bit)
         THEN SqrtBits(n, r + bit, bit \div 2)
         ELSE SqrtBits(n, r, bit \div 2)

Sqrt(n) == SqrtBits(n, 0, 32768)

\* atan(2^-i) in microradians, i = 0, 1, ...
AtanTable ==
    << 785398, 463648, 244979, 124355, 62419, 31240, 15624, 7812, 3906,
       1953, 977, 488, 244, 122, 61, 31, 15, 8, 4, 2, 1 >>

\* The angle of the vector (x, y), x > 0, against the x axis by shift and
\* add rotations towards the axis (CORDIC); z accumulates the angle.
RECURSIVE Cordic(_, _, _, _, _)
Cordic(x, y, z, i, p) ==
    IF i > Len(AtanTable) \/ y = 0 THEN z
    ELSE IF y > 0
         THEN Cordic(x + (y \div p), y - (x \div p), z + AtanTable[i], i + 1, 2 * p)
         ELSE Cordic(x - (y \div p), y + (x \div p), z - AtanTable[i], i + 1, 2 * p)

\* atan(b / a) for a > 0, b >= 0, in microradians.
Atan(b, a) ==
    IF b = 0 THEN 0
    ELSE IF a = b THEN PI \div 4
    ELSE LET k == 400000000 \div Max(a, b)
         IN  Max(0, Cordic(a * k, b * k, 0, 1, 1))

\* math.asin(s / h) for 0 <= s < h: the angle whose opposite side is s and
\* whose adjacent side is sqrt(h^2 - s^2), both scaled by c for precision.
Asin(s, h) ==
    LET d == h * h - s * s
        c == Max(1, Sqrt(1000000000 \div d))
    IN  Atan(s * c, Sqrt(d * c * c))


(***************************************************************************)
(* Planar vector.  A position is a pair <<x, y>> in 1/Res metre.           *)
(***************************************************************************)
Vec(xm, ym) == << xm * Res, ym * Res >>

\* Vector.getDistance: the euclidean distance of two positions.
getDistance(a, b) ==
    Sqrt((b[1] - a[1]) * (b[1] - a[1]) + (b[2] - a[2]) * (b[2] - a[2]))

\* Vector.getAngle of the +Y unit vector with (x, y): the unsigned angle in
\* [0, PI] between the two; 0 for the null vector.
getAngle(x, y) ==
    IF x = 0 THEN (IF y >= 0 THEN 0 ELSE PI)
    ELSE IF y = 0 THEN HalfPI
    ELSE IF y > 0 THEN Atan(Abs(x), y)
    ELSE PI - Atan(Abs(x), -y)

\* Trace.getDirection: the direction from pos1 to pos2, clockwise from +Y.
getDirection(pos1, pos2) ==
    LET x == pos2[1] - pos1[1]
        y == pos2[2] - pos1[2]
        directionAngle == getAngle(x, y)
    IN  IF x > 0 THEN TwoPI - directionAngle ELSE directionAngle

(***************************************************************************)
(* math.cos and math.sin of an angle in microradians, in 1/QOne.  The      *)
(* multiples of pi/2 give 0, 1 and -1; the floats leave a residue of       *)
(* about 1e-16 there (math.sin(math.pi) is 1.2e-16), which the fixed point *)
(* rounds to 0.  Only for the angle 0 are the floats exact as well.        *)
(***************************************************************************)
\* cos on [0, pi/2] by its power series; u is the angle in 1/QOne radian.
CosSeries(a) ==
    LET u == a \div 100
        u2 == (u * u) \div QOne
        t1 == u2 \div 2
        t2 == (t1 * u2) \div (QOne * 12)
        t3 == (t2 * u2) \div (QOne * 30)
        t4 == (t3 * u2) \div (QOne * 56)
    IN  QOne - t1 + t2 - t3 + t4

Cos(angle) ==
    LET a == angle % TwoPI
    IN  IF a = 0 THEN QOne
        ELSE IF a = HalfPI \/ a = TwoPI - HalfPI THEN 0
        ELSE IF a = PI THEN -QOne
        ELSE IF a < HalfPI THEN CosSeries(a)
        ELSE IF a < PI THEN -CosSeries(PI - a)
        ELSE IF a < TwoPI - HalfPI THEN -CosSeries(a - PI)
        ELSE CosSeries(TwoPI - a)

Sin(angle) ==
    LET a == angle % TwoPI
    IN  IF a = 0 \/ a = PI THEN 0
        ELSE IF a = HalfPI THEN QOne
        ELSE IF a = TwoPI - HalfPI THEN -QOne
        ELSE IF a < HalfPI THEN CosSeries(HalfPI - a)
        ELSE IF a < PI THEN CosSeries(a - HalfPI)
        ELSE IF a < TwoPI - HalfPI THEN -CosSeries(TwoPI - HalfPI - a)
        ELSE -CosSeries(a - (TwoPI - HalfPI))

\* The quotient a / b of two floats, rounded down, for b # 0.
Quot(a, b) == IF b > 0 THEN a \div b ELSE (-a) \div (-b)

(***************************************************************************)
(* GeoShapes.  An area is a record: a Circle (center, radius) or a         *)
(* Rectangle (p1, p2, width), lengths in 1/Res metre.                      *)
(***************************************************************************)
Circle(center, radius) == [shape |-> "Circle", center |-> center, radius |-> radius]

Rectangle(p1, p2, width) == [shape |-> "Rectangle", p1 |-> p1, p2 |-> p2, width |-> width]

\* Mutant: the boundary of the circle is outside.
CircleContains_Strict(c, x, y) ==
    /\ c.radius >= 0
    /\ (x - c.center[1]) * (x - c.center[1]) + (y - c.center[2]) * (y - c.center[2])
           < c.radius * c.radius

\* Circle.contains: refPoint.getDistance(center) <= radius.  The comparison
\* is made on the squares, where the fixed point is exact (getDistance
\* rounds the root down).
CircleContains(c, x, y) ==
    /\ c.radius >= 0
    /\ (x - c.center[1]) * (x - c.center[1]) + (y - c.center[2]) * (y - c.center[2])
           <= c.radius * c.radius

\* Rectangle.getLength.
getLength(r) ==
    Sqrt((r.p1[1] - r.p2[1]) * (r.p1[1] - r.p2[1]) + (r.p1[2] - r.p2[2]) * (r.p1[2] - r.p2[2]))

\* Rectangle.getWidth.
getWidth(r) == r.width

\* Rectangle.getHeading: the angle of p2 - p1 with +Y, not reflected.
getHeading(r) == getAngle(r.p2[1] - r.p1[1], r.p2[2] - r.p1[2])

\* Mutant: the third corner lies on the other side of the edge p1 - p2.
getP3_OtherSide(r) ==
    << r.p2[1] + (r.width * Cos(getHeading(r))) \div QOne,
       r.p2[2] + (r.width * Sin(getHeading(r))) \div QOne >>

\* Rectangle.getP3 and getP4.
getP3(r) ==
    << r.p2[1] - (r.width * Cos(getHeading(r))) \div QOne,
       r.p2[2] - (r.width * Sin(getHeading(r))) \div QOne >>

getP4(r) ==
    << r.p1[1] - (r.width * Cos(getHeading(r))) \div QOne,
       r.p1[2] - (r.width * Sin(getHeading(r))) \div QOne >>

\* One round of the loop of Rectangle.contains: the edge from a to b.
CrossesEdge(a, b, x, y) ==
    /\ y > Min(a[2], b[2])
    /\ y <= Max(a[2], b[2])
    /\ x <= Max(a[1], b[1])
    /\ \/ a[1] = b[1]
       \/ x <= Quot((y - a[2]) * (b[1] - a[1]), b[2] - a[2]) + a[1]

\* The loop of Rectangle.contains over poly[i % n], i = 0 .. n, starting
\* with p1 = poly[0]: inside flips with every edge crossed.
RECURSIVE RayCast(_, _, _, _, _, _)
RayCast(poly, i, a, x, y, inside) ==
    IF i > Len(poly) THEN inside
    ELSE LET b == poly[(i % Len(poly)) + 1]
         IN  RayCast(poly, i + 1, b, x, y,
                     IF CrossesEdge(a, b, x, y) THEN ~inside ELSE inside)

\* Rectangle.contains.
RectangleContains(r, x, y) ==
    LET poly == << r.p1, r.p2, getP3(r), getP4(r) >>
    IN  RayCast(poly, 0, poly[1], x, y, FALSE)

\* forwardingArea.contains(x, y).
Contains(area, x, y) ==
    IF area.shape = "Circle" THEN CircleContains(area, x, y)
    ELSE RectangleContains(area, x, y)

(***************************************************************************)
(* State.                                                                  *)
(*   trace[t]   the instance attributes of Trace object t: points (newest   *)
(*              first), ntptotal, currentPos, referencePosition, odometer, *)
(*              alphamin, alphamax, nmax (the TRACE_N_MAX in force)        *)
(*   virtualEvaluationPoints   the class attribute of Trace.py line 80,    *)
(*              which no method rebinds: one list for all instances        *)
(*   result     what the last query (match, area, heading) returned        *)
(*   admitted   history: the number of points each trace admitted so far   *)
(*   last       history: the last call, its receiver and what it did       *)
(*   fed        history: the positions a scenario fed to trace 1 so far    *)
(*   calls, cruise, queries   the number of calls the environment made     *)
(***************************************************************************)
VARIABLES trace, virtualEvaluationPoints, result, admitted, last, fed, calls, cruise, queries

vars ==
    << trace, virtualEvaluationPoints, result, admitted, last, fed, calls, cruise, queries >>

TraceIds == {1, 2}

None == << >>

\* A trace point: the tuple (position, currenttime, velocity, vehID) of the
\* code, and seq, the history of its admission (1 for the first admitted).
TracePoint(pos, time, v, veh, seq) ==
    [pos |-> pos, time |-> time, v |-> v, veh |-> veh, seq |-> seq]

\* The sum of the distances of consecutive points of a point list.
RECURSIVE PolylineLength(_)
PolylineLength(pts) ==
    IF Len(pts) < 2 THEN 0
    ELSE getDistance(pts[2].pos, pts[1].pos) + PolylineLength(Tail(pts))

calcTraceLength(self) == PolylineLength(self.points)

calcEvaluationTraceLength(self, vep) ==
    calcTraceLength(self) + PolylineLength(vep)

calcNrOfPoints(self) == Len(self.points)

calcNrOfEvaluationPoints(self, vep) == Len(self.points) + Len(vep)

getPoints(self) == self.points

getReferencePosition(self) == self.referencePosition

\* Trace.getEvaluationPoints: list.extend appends the class list to the live
\* list in place and returns None, which is what the caller gets.
getEvaluationPoints(self, vep) ==
    [self |-> [self EXCEPT !.points = self.points \o vep], ret |-> [kind |-> "None"]]

\* Mutant: the eviction test off by one.
TraceIsFull_OffByOne(self) == Len(self.points) > self.nmax

\* The eviction test of __addTracePoint.
TraceIsFull(self) == Len(self.points) >= self.nmax

\* Mutant: the eviction removes the two oldest points.
DropOldest_Two(pts) == SubSeq(pts, 1, Len(pts) - 2)

\* The eviction of __addTracePoint: del self.__points[-1].
DropOldest(pts) == SubSeq(pts, 1, Len(pts) - 1)

\* Mutant: the trace length is measured after the oldest point is removed.
KeepsEvicted_AfterRemoval(self) ==
    PolylineLength(DropOldest(self.points)) < MIN_EVALUATION_TRACE_LENGHT * Res

\* Whether __addTracePoint keeps the point it evicts in the class list: the
\* length of the live trace, the oldest point still in it, is below
\* MIN_EVALUATION_TRACE_LENGHT.
KeepsEvicted(self) == calcTraceLength(self) < MIN_EVALUATION_TRACE_LENGHT * Res

\* Where __addTracePoint puts the new point into the list.
InsertPoint(pts, p) == << p >> \o pts

\* Mutant: an admission resets the odometer and leaves the tube as it is.
addTracePoint_KeepsTube(self, vep, pos, time, v, seq) ==
    LET full == TraceIsFull(self)
        keep == full /\ KeepsEvicted(self)
        oldest == self.points[Len(self.points)]
        rest == IF full THEN DropOldest(self.points) ELSE self.points
        total == IF full THEN self.ntptotal - 1 ELSE self.ntptotal
    IN  [self |-> [self EXCEPT !.points = InsertPoint(rest, TracePoint(pos, time, v, self.vehID, seq)),
                               !.odometer = 0,
                               !.ntptotal = total + 1],
         vep |-> IF keep THEN << oldest >> \o vep ELSE vep]

\* Mutant: an admission moves the reference position to the new point.
addTracePoint_MovesReference(self, vep, pos, time, v, seq) ==
    LET full == TraceIsFull(self)
        keep == full /\ KeepsEvicted(self)
        oldest == self.points[Len(self.points)]
        rest == IF full THEN DropOldest(self.points) ELSE self.points
        total == IF full THEN self.ntptotal - 1 ELSE self.ntptotal
    IN  [self |-> [self EXCEPT !.points = InsertPoint(rest, TracePoint(pos, time, v, self.vehID, seq)),
                               !.odometer = 0,
                               !.alphamin = 0,
                               !.alphamax = TwoPI,
                               !.ntptotal = total + 1,
                               !.referencePosition = pos],
         vep |-> IF keep THEN << oldest >> \o vep ELSE vep]

\* Trace.__addTracePoint: the pair of the instance and the class list after
\* the call.  seq is the history number of the admitted point.
addTracePoint(self, vep, pos, time, v, seq) ==
    LET full == TraceIsFull(self)
        keep == full /\ KeepsEvicted(self)
        oldest == self.points[Len(self.points)]
        rest == IF full THEN DropOldest(self.points) ELSE self.points
        total == IF full THEN self.ntptotal - 1 ELSE self.ntptotal
    IN  [self |-> [self EXCEPT !.points = InsertPoint(rest, TracePoint(pos, time, v, self.vehID, seq)),
                               !.odometer = 0,
                               !.alphamin = 0,
                               !.alphamax = TwoPI,
                               !.ntptotal = total + 1],
         vep |-> IF keep THEN << oldest >> \o vep ELSE vep]

\* Trace.__addTracePointByPosition.
addTracePointByPosition(self, vep, position, v, seq) ==
    addTracePoint(self, vep, position, "now", v, seq)

\* Trace.__init__.
NewTrace(initialPosition, initialTime, initialV, initialVehId, vep) ==
    addTracePoint([points |-> << >>, ntptotal |-> 0, currentPos |-> None,
                   referencePosition |-> initialPosition, odometer |-> 0,
                   alphamin |-> 0, alphamax |-> 0, vehID |-> initialVehId,
                   nmax |-> TRACE_N_MAX],
                  vep, initialPosition, initialTime, initialV, 1)

\* Trace.forcePointCreation.
forcePointCreation(self, vep, position, v, seq) ==
    addTracePointByPosition(self, vep, position, v, seq)

\* Mutant: a new limit empties the trace.
overwriteMaxTraceLength_Clears(self, maxNrOfPoints) ==
    IF maxNrOfPoints > 0
    THEN [self EXCEPT !.nmax = maxNrOfPoints, !.points = << >>, !.ntptotal = 0]
    ELSE self

\* Trace.overwriteMaxTraceLength, the maxNrOfPoints argument.
overwriteMaxTraceLength(self, maxNrOfPoints) ==
    IF maxNrOfPoints > 0 THEN [self EXCEPT !.nmax = maxNrOfPoints] ELSE self

\* Mutant: the minimum distance is tested on the odometer with the new edge.
AdmitsPoint_NewOdometer(self, newPos) ==
    LET edgelength == getDistance(self.currentPos, newPos)
        newOdometer == self.odometer + edgelength
        lasttp == self.points[1].pos
        dir == getDirection(lasttp, newPos)
        newPosHeading == getDirection(self.currentPos, newPos)
    IN  /\ newOdometer >= TRACE_MIN_DIST * Res
        /\ \/ newOdometer >= TRACE_MAX_DIST * Res
           \/ Abs(dir - newPosHeading) > TRACE_MAX_HEDINGDELTA
           \/ dir < self.alphamin
           \/ dir > self.alphamax

\* Mutant: every position past the minimum distance becomes a trace point.
AdmitsPoint_MinDistOnly(self, newPos) == self.odometer >= TRACE_MIN_DIST * Res

\* Mutant: the driven distance makes a trace point at half of TRACE_MAX_DIST.
AdmitsPoint_HalfMaxDist(self, newPos) ==
    LET edgelength == getDistance(self.currentPos, newPos)
        newOdometer == self.odometer + edgelength
        lasttp == self.points[1].pos
        dir == getDirection(lasttp, newPos)
        newPosHeading == getDirection(self.currentPos, newPos)
    IN  /\ self.odometer >= TRACE_MIN_DIST * Res
        /\ \/ newOdometer >= (TRACE_MAX_DIST * Res) \div 2
           \/ Abs(dir - newPosHeading) > TRACE_MAX_HEDINGDELTA
           \/ dir < self.alphamin
           \/ dir > self.alphamax

\* The admission test of processNewPosition (lines 444 to 461) for a trace
\* that holds a point: whether the current position becomes a trace point.
AdmitsPoint(self, newPos) ==
    LET edgelength == getDistance(self.currentPos, newPos)
        newOdometer == self.odometer + edgelength
        lasttp == self.points[1].pos
        dir == getDirection(lasttp, newPos)
        newPosHeading == getDirection(self.currentPos, newPos)
    IN  /\ self.odometer >= TRACE_MIN_DIST * Res
        /\ \/ newOdometer >= TRACE_MAX_DIST * Res
           \/ Abs(dir - newPosHeading) > TRACE_MAX_HEDINGDELTA
           \/ dir < self.alphamin
           \/ dir > self.alphamax

\* The recalculation of the tube of processNewPosition (lines 467 to 481).
NarrowTube(self, newPos, edgelength) ==
    LET lasttp == self.points[1].pos
        dist == getDistance(lasttp, newPos)
        dir == getDirection(lasttp, newPos)
        beta == Asin(TRACE_MAX_OFFSET * Res, dist)
        betamin == dir - beta
        betamax == dir + beta
        s1 == [self EXCEPT !.odometer = self.odometer + edgelength]
    IN  IF dist > MATCH_MAX_OFFSET * Res
           /\ \/ (betamin >= s1.alphamin /\ betamin <= s1.alphamax)
              \/ (betamax <= s1.alphamax /\ betamax <= s1.alphamin)
        THEN [s1 EXCEPT !.alphamin = IF betamin > s1.alphamin THEN betamin ELSE s1.alphamin,
                        !.alphamax = IF betamax < s1.alphamax THEN betamax ELSE s1.alphamax]
        ELSE s1

\* Mutant: every call makes the new position a trace point.
processNewPosition_Force(self, vep, newPos, curSpeed, seq) ==
    LET a == addTracePointByPosition(self, vep, newPos, curSpeed, seq)
    IN  [self |-> [a.self EXCEPT !.currentPos = newPos], vep |-> a.vep]

\* Mutant: an admission makes the new position the trace point.
processNewPosition_AdmitsNew(self, vep, newPos, curSpeed, seq) ==
    IF self.currentPos = None
    THEN [self |-> [self EXCEPT !.currentPos = newPos], vep |-> vep]
    ELSE LET edgelength == getDistance(self.currentPos, newPos)
             admit == IF Len(self.points) <= 0 THEN TRUE ELSE AdmitsPoint(self, newPos)
             a == IF admit
                  THEN addTracePointByPosition(self, vep, newPos, curSpeed, seq)
                  ELSE [self |-> self, vep |-> vep]
         IN  [self |-> [NarrowTube(a.self, newPos, edgelength) EXCEPT !.currentPos = newPos],
              vep |-> a.vep]

\* Trace.processNewPosition: the instance and the class list after the call.
processNewPosition(self, vep, newPos, curSpeed, seq) ==
    IF self.currentPos = None
    THEN [self |-> [self EXCEPT !.currentPos = newPos], vep |-> vep]
    ELSE LET edgelength == getDistance(self.currentPos, newPos)
             admit == IF Len(self.points) <= 0 THEN TRUE ELSE AdmitsPoint(self, newPos)
             a == IF admit
                  THEN addTracePointByPosition(self, vep, self.currentPos, curSpeed, seq)
                  ELSE [self |-> self, vep |-> vep]
         IN  [self |-> [NarrowTube(a.self, newPos, edgelength) EXCEPT !.currentPos = newPos],
              vep |-> a.vep]


(***************************************************************************)
(* Matching a position to the trace.  A query returns a TraceMatch, or the *)
(* integer 1 when the except clause caught an exception.                   *)
(***************************************************************************)
TraceMatch(quality, distance, status) ==
    [kind |-> "TraceMatch", quality |-> quality, distance |-> distance, status |-> status]

\* TraceMatch.__init__.
NewTraceMatch == TraceMatch(0, DEFAULT_MATCH_DISTANCE * Res, STATUS_NO_MATCH_UNDEFINED)

\* TraceMatch.setMatchStatus.
setMatchStatus(traceMatch, value) == [traceMatch EXCEPT !.status = value]

\* The "return 1" of the except clauses.
ErrorReturn == [kind |-> "int", value |-> 1]

\* What stands for "the call raised" where a length is expected.
Raised == -1

\* Mutant: the heading needs three points.
calcCurrentTraceHeading_ThreePoints(self) ==
    IF Len(self.points) > 2
    THEN getDirection(self.points[2].pos, self.points[1].pos)
    ELSE Raised

\* Trace.calcCurrentTraceHeading: Raised stands for the
\* NotEnoughTracePointsException of a trace of fewer than two points.
calcCurrentTraceHeading(self) ==
    IF Len(self.points) > 1
    THEN getDirection(self.points[2].pos, self.points[1].pos)
    ELSE Raised

\* Trace.__calcEdgeDistance: the distance of P to the line through the edge
\* (Hesse normal form, with a = yDiff / xDiff multiplied out), Raised for an
\* edge of two equal points.
calcEdgeDistance(edgeP1, edgeP2, P) ==
    LET xDiff == edgeP2[1] - edgeP1[1]
        yDiff == edgeP2[2] - edgeP1[2]
    IN  IF xDiff # 0
        THEN Abs(xDiff * (P[2] - edgeP1[2]) - yDiff * (P[1] - edgeP1[1]))
                 \div Sqrt(xDiff * xDiff + yDiff * yDiff)
        ELSE IF yDiff # 0 THEN Abs(P[1] - edgeP1[1])
        ELSE Raised

\* The while loop of Trace.__matchToOtherTrace for the edge rp1 -> rp2: the
\* points of the other trace from index i2 on, shifted by the offset, are
\* counted while they lie nearer than MATCH_MAX_OFFSET to the edge's line.
\* A degenerate edge raises in __calcEdgeDistance.  The local dist is
\* computed by the code and never used, and is left out.
RECURSIVE WalkEdge(_, _, _, _, _)
WalkEdge(rp1, rp2, rps2, off, w) ==
    IF w.raised \/ w.i2 >= Len(rps2)
    THEN w
    ELSE LET tmprp == << rps2[w.i2 + 1].pos[1] + off[1], rps2[w.i2 + 1].pos[2] + off[2] >>
             offset == calcEdgeDistance(rp1.pos, rp2.pos, tmprp)
         IN  IF offset = Raised
             THEN [w EXCEPT !.raised = TRUE]
             ELSE IF offset < MATCH_MAX_OFFSET * Res
             THEN WalkEdge(rp1, rp2, rps2, off,
                           [w EXCEPT !.i2 = @ + 1,
                                     !.totaloffsets = @ + offset,
                                     !.totalmatches = @ + 1])
             ELSE w

\* The for loop of Trace.__matchToOtherTrace over the edges of this trace,
\* from edge k on.
RECURSIVE WalkTrace(_, _, _, _, _)
WalkTrace(rps1, rps2, off, k, w) ==
    IF k >= Len(rps1)
    THEN w
    ELSE WalkTrace(rps1, rps2, off, k + 1, WalkEdge(rps1[k], rps1[k + 1], rps2, off, w))

\* The locals of __matchToOtherTrace after its loop.
WalkOtherTrace(self, atrace, off) ==
    WalkTrace(getPoints(self), getPoints(atrace), off, 1,
              [i2 |-> 0, totaloffsets |-> 0, totalmatches |-> 0, raised |-> FALSE])

\* 1 - avgoffset / MATCH_MAX_OFFSET, in 1/QOne.
OffsetFactor(w) ==
    QOne - (w.totaloffsets * QOne) \div (w.totalmatches * MATCH_MAX_OFFSET * Res)

\* totalmatches / len(rps2) * factor: both operands of the division are
\* ints, and the division of two ints is the floor division of Python 2.
ShareOfMatches(totalmatches, n, factor) == (totalmatches \div n) * factor

\* Trace.__matchToOtherTrace, in 1/QOne: an exception is swallowed and
\* answered with 1.
matchToOtherTraceOffset(self, atrace, off) ==
    LET w == WalkOtherTrace(self, atrace, off)
    IN  IF w.raised THEN QOne
        ELSE IF w.totalmatches > 0
        THEN ShareOfMatches(w.totalmatches, Len(getPoints(atrace)), OffsetFactor(w))
        ELSE 0

\* Trace.matchToOtherTrace.
matchToOtherTrace(self, atrace) ==
    matchToOtherTraceOffset(self, atrace,
        << getReferencePosition(atrace)[1] - getReferencePosition(self)[1],
           getReferencePosition(atrace)[2] - getReferencePosition(self)[2] >>)

\* Trace.__calcMatchQuality, in 1/QOne.
calcMatchQuality(offset, hddelta) ==
    (7000 - (7000 * offset) \div (MATCH_MAX_OFFSET * Res))
    + (3000 - (3000 * (hddelta \div 10)) \div (MATCH_MAX_HEADINGDELTA \div 10))

\* Mutant: the smooth factor is not clamped at 0.
calcCombinedMatchQuality_NoClamp(offset, hddelta, oldquality, oldegodist) ==
    LET smq == calcMatchQuality(offset, hddelta)
        sf == QOne - (oldegodist * QOne) \div (MATCH_DIST_SMOOTH * Res)
    IN  (sf * oldquality + (QOne - sf) * smq) \div QOne

\* Trace.__calcCombinedMatchQuality.
calcCombinedMatchQuality(offset, hddelta, oldquality, oldegodist) ==
    LET smq == calcMatchQuality(offset, hddelta)
        sf == Max(0, QOne - (oldegodist * QOne) \div (MATCH_DIST_SMOOTH * Res))
    IN  (sf * oldquality + (QOne - sf) * smq) \div QOne

\* The locals of matchToPosition before its loop.
SweepStart ==
    [bmquality |-> 0, bmoffset |-> NO_OFFSET * Res, bmrawdist |-> 0, bmtp |-> None,
     rawdist |-> 0, oldMatchDistance |-> DEFAULT_MATCH_DISTANCE * Res,
     oldMatchQuality |-> 0, raised |-> FALSE]

\* One round of the loop of matchToPosition, on the edge rp1 - rp2.  Each
\* round sets oldMatchDistance and oldMatchQuality anew (lines 578, 579).
SweepEdge(st, rp1, rp2, position, heading, oldTraceMatch) ==
    LET offset == calcEdgeDistance(rp1.pos, rp2.pos, position)
        currentTraceDirection == getDirection(rp2.pos, rp1.pos)
        hddelta == Abs(heading - currentTraceDirection)
        relevant == offset <= MATCH_MAX_OFFSET * Res /\ hddelta <= MATCH_MAX_HEADINGDELTA
        withOld == relevant /\ oldTraceMatch # None
        quality == IF oldTraceMatch # None
                   THEN calcCombinedMatchQuality(offset, hddelta, oldTraceMatch.quality,
                                                 oldTraceMatch.distance)
                   ELSE calcMatchQuality(offset, hddelta)
        better == relevant /\ quality > st.bmquality + QUALITY_DELTA
    IN  IF st.raised THEN st
        ELSE IF offset = Raised THEN [st EXCEPT !.raised = TRUE]
        ELSE IF withOld /\ oldTraceMatch.kind # "TraceMatch" THEN [st EXCEPT !.raised = TRUE]
        ELSE [bmquality |-> IF better THEN quality ELSE st.bmquality,
              bmoffset |-> IF better THEN offset ELSE st.bmoffset,
              bmrawdist |-> IF better THEN st.rawdist ELSE st.bmrawdist,
              bmtp |-> IF better THEN rp1.pos ELSE st.bmtp,
              rawdist |-> st.rawdist + getDistance(rp1.pos, rp2.pos),
              oldMatchDistance |-> IF withOld THEN oldTraceMatch.distance
                                   ELSE DEFAULT_MATCH_DISTANCE * Res,
              oldMatchQuality |-> IF withOld THEN oldTraceMatch.quality ELSE 0,
              raised |-> FALSE]

\* The loop of matchToPosition over the edges points[i] - points[i + 1].
RECURSIVE Sweep(_, _, _, _, _, _)
Sweep(points, i, st, position, heading, oldTraceMatch) ==
    IF i >= Len(points) THEN st
    ELSE Sweep(points, i + 1,
               SweepEdge(st, points[i], points[i + 1], position, heading, oldTraceMatch),
               position, heading, oldTraceMatch)

\* matchToPosition from line 531 on: the heading gate, the loop and the
\* result.
matchInArea(self, position, heading, oldTraceMatch) ==
    LET directionToRefPos == getDirection(position, getReferencePosition(self))
        st == Sweep(self.points, 1, SweepStart, position, heading, oldTraceMatch)
        matchdist == getDistance(position, st.bmtp) + st.bmrawdist
    IN  IF \/ directionToRefPos > calcCurrentTraceHeading(self) + HalfPI
           \/ directionToRefPos < calcCurrentTraceHeading(self) - HalfPI
        THEN setMatchStatus(NewTraceMatch, STATUS_NO_MATCH_HEADING)
        ELSE IF st.raised THEN ErrorReturn
        ELSE IF st.bmoffset < NO_OFFSET * Res
        THEN IF st.oldMatchDistance < matchdist
             THEN TraceMatch(st.oldMatchQuality, st.oldMatchDistance, STATUS_MATCH)
             ELSE TraceMatch(st.bmquality, matchdist, STATUS_MATCH)
        ELSE setMatchStatus(NewTraceMatch, STATUS_NO_MATCH_TRACE)

\* Mutant: the forwarding area is looked at before the number of points.
matchToPosition_AreaFirst(self, position, heading, forwardingArea, oldTraceMatch) ==
    IF ~Contains(forwardingArea, position[1], position[2])
    THEN setMatchStatus(NewTraceMatch, STATUS_NO_MATCH_RELEVANCE_AREA)
    ELSE IF Len(self.points) < 2 THEN NewTraceMatch
    ELSE matchInArea(self, position, heading, oldTraceMatch)

\* Trace.matchToPosition.
matchToPosition(self, position, heading, forwardingArea, oldTraceMatch) ==
    IF Len(self.points) < 2 THEN NewTraceMatch
    ELSE IF ~Contains(forwardingArea, position[1], position[2])
    THEN setMatchStatus(NewTraceMatch, STATUS_NO_MATCH_RELEVANCE_AREA)
    ELSE matchInArea(self, position, heading, oldTraceMatch)

(***************************************************************************)
(* The forwarding area along the trace.                                    *)
(***************************************************************************)
\* Trace.setReferencePosition.
setReferencePosition(self, value) == [self EXCEPT !.referencePosition = value]

\* The loop of calcHeadingForwardingArea: the position of the first point,
\* newest first, farther than d from refPos; that of the last point if none
\* is.
RECURSIVE FirstBeyond(_, _, _, _)
FirstBeyond(tracePoints, i, refPos, d) ==
    IF i >= Len(tracePoints) \/ getDistance(tracePoints[i].pos, refPos) > d
    THEN tracePoints[i].pos
    ELSE FirstBeyond(tracePoints, i + 1, refPos, d)

\* Trace.calcHeadingForwardingArea.
calcHeadingForwardingArea(tracePoints, refPos, d) ==
    getDirection(refPos, IF tracePoints = << >> THEN << 0, 0 >>
                         ELSE FirstBeyond(tracePoints, 1, refPos, d))

\* The width calculateRectangularArea derives from the trace when it is
\* given a negative one: twice the largest deviation of a point from the
\* line refPos - oldest point, plus the overflow on both sides.
RECURSIVE MaxDeviation(_, _, _, _, _)
MaxDeviation(points, i, refPos, oldest, maxoffset) ==
    IF i > Len(points) THEN maxoffset
    ELSE MaxDeviation(points, i + 1, refPos, oldest,
                      IF oldest # refPos
                      THEN Max(maxoffset, calcEdgeDistance(refPos, oldest, points[i].pos))
                      ELSE maxoffset)

\* Trace.calculateRectangularArea.  No statement of its try block raises on
\* a trace that holds a point, so the result is a Rectangle.
calculateRectangularArea(self, width, length, offset) ==
    LET refPos == self.referencePosition
        oldestTracePoint == self.points[Len(self.points)]
        traceDist == getDistance(refPos, oldestTracePoint.pos)
        length1 == IF length > traceDist THEN traceDist - offset ELSE length
        d == length1 - offset
        rectHeading == calcHeadingForwardingArea(self.points, refPos, d)
        width1 == IF width < 0
                  THEN 2 * (MaxDeviation(self.points, 1, refPos, oldestTracePoint.pos, 0)
                            + AREA_WIDTH_OVERFLOW * Res)
                  ELSE width
        sinHeading == Sin(rectHeading)
        cosHeading == Cos(rectHeading)
        normAbs == Abs(sinHeading * cosHeading)
        signIndicator == IF normAbs = 0 THEN sinHeading + cosHeading
                         ELSE (sinHeading * cosHeading * QOne) \div normAbs
        signedWidth == (signIndicator * width1) \div QOne
        projectedX1 == refPos[1] + (signedWidth * sinHeading) \div (2 * QOne)
        projectedY1 == refPos[2] + (signedWidth * cosHeading) \div (2 * QOne)
        rotatedX1withOffset == projectedX1 - (offset * sinHeading) \div QOne
        rotatedY1withOffset == projectedY1 + (offset * cosHeading) \div QOne
        rotatedX2withOffset == rotatedX1withOffset - (length1 * sinHeading) \div QOne
        rotatedY2withOffset == rotatedY1withOffset + (length1 * cosHeading) \div QOne
    IN  Rectangle(<< rotatedX1withOffset, rotatedY1withOffset >>,
                  << rotatedX2withOffset, rotatedY2withOffset >>, width1)

(***************************************************************************)
(* The environment: the host creates the traces and calls them.  Its       *)
(* inputs are drawn from small sets; MaxCalls bounds the calls with freely  *)
(* chosen inputs.  Before them the host may drive trace 1 straight along   *)
(* +Y, forcing a point every step metres (step chosen in CruiseSteps), for *)
(* up to MaxCruise points, so that a trace at its full default length is   *)
(* reached, shorter or longer than MIN_EVALUATION_TRACE_LENGHT.            *)
(***************************************************************************)
MaxCalls == 3

CruiseSteps == {15, 100}

MaxCruise == TRACE_N_MAX + 1

Speeds == {10}

StartPos(t) == IF t = 1 THEN Vec(0, 0) ELSE Vec(50, 0)

FeedPositions ==
    { Vec(0, 0), Vec(0, 5), Vec(0, 250), Vec(-30, 0), Vec(-60, 40) }

ForcePositions == { Vec(0, 15) }

OverrideValues == { 2, TRACE_N_MAX + 1 }

NoCall ==
    [op |-> "init", t |-> 0, pos |-> None, odo |-> 0, cur |-> None,
     admitted |-> FALSE, evicted |-> FALSE]

\* The history of a call that may have admitted a point: the receiver, the
\* position passed, the odometer and current position it found, and whether
\* it admitted a point and evicted one.
Called(op, t, pos, before, after) ==
    [op |-> op, t |-> t, pos |-> pos, odo |-> before.odometer, cur |-> before.currentPos,
     admitted |-> after.points # before.points,
     evicted |-> after.points # before.points /\ Len(after.points) <= Len(before.points)]

Init ==
    /\ trace = [t \in TraceIds |-> NewTrace(StartPos(t), "init", 0, t, << >>).self]
    /\ virtualEvaluationPoints = << >>
    /\ result = None
    /\ admitted = [t \in TraceIds |-> 1]
    /\ last = NoCall
    /\ calls = 0
    /\ cruise = [n |-> 0, step |-> 0]
    /\ queries = 0
    /\ fed = << >>

\* The effect of a call that returns the pair r on trace t.
Apply(op, t, pos, r) ==
    /\ trace' = [trace EXCEPT ![t] = r.self]
    /\ virtualEvaluationPoints' = r.vep
    /\ admitted' = [admitted EXCEPT ![t] = IF r.self.points # trace[t].points THEN @ + 1 ELSE @]
    /\ last' = Called(op, t, pos, trace[t], r.self)
    /\ UNCHANGED << result, queries, fed >>

ProcessNewPosition(t, newPos, curSpeed) ==
    /\ calls < MaxCalls
    /\ calls' = calls + 1
    /\ UNCHANGED cruise
    /\ Apply("processNewPosition", t, newPos,
             processNewPosition(trace[t], virtualEvaluationPoints, newPos, curSpeed, admitted[t] + 1))

ForcePointCreation(t, position, v) ==
    /\ calls < MaxCalls
    /\ calls' = calls + 1
    /\ UNCHANGED cruise
    /\ Apply("forcePointCreation", t, position,
             forcePointCreation(trace[t], virtualEvaluationPoints, position, v, admitted[t] + 1))

\* forcePointCreation on trace 1 at the next point of the straight drive.
Cruise(step) ==
    /\ calls = 0
    /\ cruise.n < MaxCruise
    /\ cruise.n = 0 \/ cruise.step = step
    /\ cruise' = [n |-> cruise.n + 1, step |-> step]
    /\ UNCHANGED calls
    /\ Apply("forcePointCreation", 1, Vec(0, (cruise.n + 1) * step),
             forcePointCreation(trace[1], virtualEvaluationPoints,
                                Vec(0, (cruise.n + 1) * step), 10, admitted[1] + 1))

OverwriteMaxTraceLength(t, maxNrOfPoints) ==
    /\ calls < MaxCalls
    /\ calls' = calls + 1
    /\ trace' = [trace EXCEPT ![t] = overwriteMaxTraceLength(trace[t], maxNrOfPoints)]
    /\ last' = [NoCall EXCEPT !.op = "overwriteMaxTraceLength", !.t = t]
    /\ UNCHANGED << virtualEvaluationPoints, result, admitted, cruise, queries, fed >>

Next ==
    \/ \E t \in TraceIds, p \in FeedPositions, v \in Speeds : ProcessNewPosition(t, p, v)
    \/ \E t \in TraceIds, p \in ForcePositions, v \in Speeds : ForcePointCreation(t, p, v)
    \/ \E t \in TraceIds, n \in OverrideValues : OverwriteMaxTraceLength(t, n)
    \/ \E step \in CruiseSteps : Cruise(step)

Spec == Init /\ [][Next]_vars


(***************************************************************************)
(* Claims on the admission of trace points (specification Spec).           *)
(***************************************************************************)
IsAdmissionCall(c) == c.op \in {"processNewPosition", "forcePointCreation"}

\* C1: after any sequence of processNewPosition and forcePointCreation
\* calls a trace whose TRACE_N_MAX is the default holds at most TRACE_N_MAX
\* points, and the points of every trace are in reverse admission order:
\* the head is the point admitted last, each next one was admitted earlier.
C1_BoundedNewestFirst ==
    \A t \in TraceIds :
        LET pts == getPoints(trace[t])
        IN  /\ trace[t].nmax = TRACE_N_MAX => calcNrOfPoints(trace[t]) <= TRACE_N_MAX
            /\ pts # << >> => pts[1].seq = admitted[t]
            /\ \A i \in 1..(Len(pts) - 1) : pts[i].seq > pts[i + 1].seq

\* A trace at the default limit that has just evicted its oldest point.
C1_Witness ==
    /\ IsAdmissionCall(last) /\ last.evicted
    /\ trace[last.t].nmax = TRACE_N_MAX
    /\ calcNrOfPoints(trace[last.t]) = TRACE_N_MAX
    /\ admitted[last.t] > TRACE_N_MAX

\* C3: one processNewPosition call admits at most one point: afterwards the
\* list is the one before, or one new head followed by the list before
\* with at most its last element removed.
C3_AtMostOnePoint ==
    [][\A t \in TraceIds :
          (last'.op = "processNewPosition" /\ last'.t = t /\ calls' = calls + 1) =>
              LET old == trace[t].points
                  new == trace'[t].points
              IN  \/ new = old
                  \/ /\ new # << >>
                     /\ new[1].seq = admitted[t] + 1
                     /\ \/ Tail(new) = old
                        \/ old # << >> /\ Tail(new) = SubSeq(old, 1, Len(old) - 1)]_vars

\* A processNewPosition call that admitted a point and evicted the oldest.
C3_Witness ==
    last.op = "processNewPosition" /\ last.admitted /\ last.evicted

\* C4: a processNewPosition call that finds the odometer below
\* TRACE_MIN_DIST on a trace with a point admits no point, whatever the new
\* position is.
C4_NoAdmissionBelowMinDist ==
    [][\A t \in TraceIds :
          ( /\ last'.op = "processNewPosition" /\ last'.t = t /\ calls' = calls + 1
            /\ trace[t].odometer < TRACE_MIN_DIST * Res
            /\ Len(trace[t].points) >= 1 ) =>
              trace'[t].points = trace[t].points]_vars

\* A call that found a current position and an odometer below TRACE_MIN_DIST
\* and moved by TRACE_MAX_DIST or more: odometer + edge passes both limits.
C4_Witness ==
    /\ last.op = "processNewPosition" /\ last.cur # None
    /\ last.odo < TRACE_MIN_DIST * Res
    /\ getDistance(last.cur, last.pos) >= TRACE_MAX_DIST * Res
    /\ ~last.admitted

\* C7: the number of points a trace retains, live and virtual, stays within
\* the constant that bounds the collections, TRACE_N_MAX (for a trace whose
\* TRACE_N_MAX is the default).
C7_RetainedPointsBounded ==
    \A t \in TraceIds :
        trace[t].nmax = TRACE_N_MAX =>
            calcNrOfEvaluationPoints(trace[t], virtualEvaluationPoints) <= TRACE_N_MAX

\* C8: admissions on one trace leave what another trace reports unchanged:
\* its number of evaluation points and its evaluation trace length.
C8_OtherTraceUnchanged ==
    [][\A a, b \in TraceIds :
          (a # b /\ IsAdmissionCall(last') /\ last'.t = a
             /\ (calls' # calls \/ cruise' # cruise)) =>
              /\ calcNrOfEvaluationPoints(trace'[b], virtualEvaluationPoints')
                     = calcNrOfEvaluationPoints(trace[b], virtualEvaluationPoints)
              /\ calcEvaluationTraceLength(trace'[b], virtualEvaluationPoints')
                     = calcEvaluationTraceLength(trace[b], virtualEvaluationPoints)]_vars

(***************************************************************************)
(* Specification SpecMatch: positions are matched to trace 1.  The trace   *)
(* is built by forcePointCreation at the corners of an L (and twice at the *)
(* same place); each query passes no prior match or the result of the      *)
(* query before it.                                                        *)
(***************************************************************************)
MaxQueries == 2

MatchForcePositions == { Vec(0, 0), Vec(100, 0), Vec(100, 100) }

MatchPositions == { Vec(100, 0), Vec(100, -10), Vec(100, 50), Vec(300, 0) }

MatchHeadings == { 0, PI }

MatchAreas ==
    { Circle(Vec(0, 0), 200 * Res),
      Rectangle(Vec(150, -50), Vec(150, 20), 100 * Res) }

MatchToPosition(t, position, heading, forwardingArea, oldTraceMatch) ==
    /\ queries < MaxQueries
    /\ queries' = queries + 1
    /\ result' = matchToPosition(trace[t], position, heading, forwardingArea, oldTraceMatch)
    /\ last' = [op |-> "matchToPosition", t |-> t, pos |-> position, heading |-> heading,
                area |-> forwardingArea, prior |-> oldTraceMatch]
    /\ UNCHANGED << trace, virtualEvaluationPoints, admitted, calls, cruise, fed >>

NextMatch ==
    \/ \E p \in MatchForcePositions, v \in Speeds : ForcePointCreation(1, p, v)
    \/ \E p \in MatchPositions, h \in MatchHeadings, a \in MatchAreas, old \in {None, result} :
           MatchToPosition(1, p, h, a, old)

SpecMatch == Init /\ [][NextMatch]_vars

\* C2: whenever matchToPosition is called with a prior TraceMatch and returns
\* status MATCH, the returned distance is at most the distance of the prior
\* match.
C2_DistanceNeverIncreases ==
    ( /\ last.op = "matchToPosition"
      /\ last.prior # None
      /\ last.prior.kind = "TraceMatch"
      /\ result.kind = "TraceMatch"
      /\ result.status = STATUS_MATCH )
    => result.distance <= last.prior.distance

\* C5: matchToPosition always returns a TraceMatch whose status is one of
\* the five status values, whatever the trace.
C5_AlwaysTraceMatch ==
    last.op = "matchToPosition"
    => /\ result.kind = "TraceMatch"
       /\ result.status \in { STATUS_MATCH, STATUS_NO_MATCH_RELEVANCE_AREA,
                              STATUS_NO_MATCH_HEADING, STATUS_NO_MATCH_TRACE,
                              STATUS_NO_MATCH_UNDEFINED }

\* C6: a TraceMatch returned with a status other than MATCH has quality 0
\* and distance 9999; the status is UNDEFINED exactly when the trace has
\* fewer than two points, and NO_MATCH_RELEVANCE_AREA exactly when it has
\* two or more and the forwarding area does not contain the position.
C6_NoMatchStatuses ==
    last.op = "matchToPosition"
    => LET few == Len(trace[last.t].points) < 2
           outside == ~Contains(last.area, last.pos[1], last.pos[2])
       IN  /\ few => result = TraceMatch(0, DEFAULT_MATCH_DISTANCE * Res, STATUS_NO_MATCH_UNDEFINED)
           /\ (~few /\ outside)
                 => result = TraceMatch(0, DEFAULT_MATCH_DISTANCE * Res,
                                        STATUS_NO_MATCH_RELEVANCE_AREA)
           /\ result.kind = "TraceMatch"
                 => /\ result.status = STATUS_NO_MATCH_UNDEFINED => few
                    /\ result.status = STATUS_NO_MATCH_RELEVANCE_AREA => (~few /\ outside)
                    /\ result.status # STATUS_MATCH
                          => /\ result.quality = 0
                             /\ result.distance = DEFAULT_MATCH_DISTANCE * Res

\* A query outside the forwarding area on a trace of two points or more.
C6_Witness ==
    /\ last.op = "matchToPosition"
    /\ Len(trace[last.t].points) >= 2
    /\ ~Contains(last.area, last.pos[1], last.pos[2])
    /\ result.status = STATUS_NO_MATCH_RELEVANCE_AREA


(***************************************************************************)
(* Specification SpecScenario: trace 1, seeded at (0, 0) by its            *)
(* constructor, is fed positions of the straight-line scenario through     *)
(* processNewPosition, in any order and number up to MaxFeeds, and asked   *)
(* for its current heading.                                                *)
(***************************************************************************)
MaxFeeds == 5

StraightLine == << Vec(0, 0), Vec(0, 15), Vec(0, 30), Vec(0, 60), Vec(0, 120) >>

ScenarioPositions == { StraightLine[i] : i \in DOMAIN StraightLine }

\* What a call of calcCurrentTraceHeading gives its caller.
HeadingResult(self) ==
    IF calcCurrentTraceHeading(self) = Raised
    THEN [kind |-> "raise", exception |-> "NotEnoughTracePointsException"]
    ELSE [kind |-> "float", value |-> calcCurrentTraceHeading(self)]

Feed(newPos, curSpeed) ==
    /\ Len(fed) < MaxFeeds
    /\ fed' = Append(fed, newPos)
    /\ LET r == processNewPosition(trace[1], virtualEvaluationPoints, newPos,
                                   curSpeed, admitted[1] + 1)
       IN  /\ trace' = [trace EXCEPT ![1] = r.self]
           /\ virtualEvaluationPoints' = r.vep
           /\ admitted' = [admitted EXCEPT ![1] = IF r.self.points # trace[1].points
                                                  THEN @ + 1 ELSE @]
           /\ last' = Called("processNewPosition", 1, newPos, trace[1], r.self)
    /\ UNCHANGED << result, calls, cruise, queries >>

CalcCurrentTraceHeading(t) ==
    /\ queries < MaxQueries
    /\ queries' = queries + 1
    /\ result' = HeadingResult(trace[t])
    /\ last' = [NoCall EXCEPT !.op = "calcCurrentTraceHeading", !.t = t]
    /\ UNCHANGED << trace, virtualEvaluationPoints, admitted, fed, calls, cruise >>

NextScenario ==
    \/ \E p \in ScenarioPositions, v \in Speeds : Feed(p, v)
    \/ CalcCurrentTraceHeading(1)

SpecScenario == Init /\ [][NextScenario]_vars

\* C10 as stated: after the straight-line scenario exactly 4 trace points
\* have been admitted beside the seed, the points are newest first, and
\* calcCurrentTraceHeading() returns 0.
C10_FourPointsHeadingZero ==
    fed = StraightLine
    => /\ admitted[1] = 1 + 4
       /\ \A i \in 1..(Len(trace[1].points) - 1) :
              trace[1].points[i].seq > trace[1].points[i + 1].seq
       /\ last.op = "calcCurrentTraceHeading" => result = [kind |-> "float", value |-> 0]

\* C10, amended: the straight-line scenario admits no trace point: the
\* trace holds the seed alone, and calcCurrentTraceHeading() raises
\* NotEnoughTracePointsException.
C10_NoPointAdmitted ==
    fed = StraightLine
    => /\ admitted[1] = 1
       /\ calcNrOfPoints(trace[1]) = 1
       /\ trace[1].points[1].pos = Vec(0, 0)
       /\ last.op = "calcCurrentTraceHeading"
             => result = [kind |-> "raise", exception |-> "NotEnoughTracePointsException"]

\* The scenario was fed in full and the heading was asked for.
C10_Witness ==
    /\ fed = StraightLine
    /\ last.op = "calcCurrentTraceHeading"
    /\ result # None


(***************************************************************************)
(* Specification SpecArea: rectangular areas along trace 1.  The trace     *)
(* runs along +Y from its reference position, the one heading (0) at which *)
(* math.sin and math.cos are exact: its points are forced on the Y axis at *)
(* or north of the seed, and the reference position is the seed or is set  *)
(* south of it.                                                            *)
(***************************************************************************)
AreaForcePositions == { Vec(0, 50), Vec(0, 100) }

AreaReferencePositions == { Vec(0, 0), Vec(0, -50) }

AreaWidths == { 10 * Res, 200 * Res, -1 }

AreaLengths == { 40 * Res, 100 * Res }

AreaOffsets == { 0, 10 * Res }

SetReferencePosition(t, value) ==
    /\ calls < MaxCalls
    /\ calls' = calls + 1
    /\ trace' = [trace EXCEPT ![t] = setReferencePosition(trace[t], value)]
    /\ last' = [NoCall EXCEPT !.op = "setReferencePosition", !.t = t, !.pos = value]
    /\ UNCHANGED << virtualEvaluationPoints, result, admitted, fed, cruise, queries >>

CalculateRectangularArea(t, width, length, offset) ==
    /\ queries < MaxQueries
    /\ queries' = queries + 1
    /\ result' = calculateRectangularArea(trace[t], width, length, offset)
    /\ last' = [op |-> "calculateRectangularArea", t |-> t, width |-> width,
                length |-> length, offset |-> offset]
    /\ UNCHANGED << trace, virtualEvaluationPoints, admitted, fed, calls, cruise >>

NextArea ==
    \/ \E p \in AreaForcePositions, v \in Speeds : ForcePointCreation(1, p, v)
    \/ \E p \in AreaReferencePositions : SetReferencePosition(1, p)
    \/ \E w \in AreaWidths, l \in AreaLengths, o \in AreaOffsets :
           CalculateRectangularArea(1, w, l, o)

SpecArea == Init /\ [][NextArea]_vars

\* C9: calculateRectangularArea(W, L, 0) with W > 0 and L at most the
\* distance from the reference position to the oldest trace point returns a
\* Rectangle with getLength() = L and getWidth() = W that contains the
\* reference position (for a trace along a coordinate axis).
C9_AreaContainsReference ==
    ( /\ last.op = "calculateRectangularArea"
      /\ last.width > 0
      /\ last.offset = 0
      /\ last.length <= getDistance(trace[last.t].referencePosition,
                                    trace[last.t].points[Len(trace[last.t].points)].pos) )
    => /\ result.shape = "Rectangle"
       /\ getLength(result) = last.length
       /\ getWidth(result) = last.width
       /\ Contains(result, trace[last.t].referencePosition[1],
                   trace[last.t].referencePosition[2])


(***************************************************************************)
(* Specification SpecDrive: trace 1, seeded at (0, 0), is fed a straight   *)
(* drive along +Y through processNewPosition: up to MaxDrive positions     *)
(* step metres apart, the first at the seed or one step north of it.       *)
(***************************************************************************)
MaxDrive == 20

DriveSteps == { 5, 15, 100, 250 }

Drive(step, first) ==
    /\ cruise.n < MaxDrive
    /\ cruise.n = 0 \/ (cruise.step = step /\ fed[1] = Vec(0, first * step))
    /\ cruise' = [n |-> cruise.n + 1, step |-> step]
    /\ fed' = Append(fed, Vec(0, (cruise.n + first) * step))
    /\ LET newPos == Vec(0, (cruise.n + first) * step)
           r == processNewPosition(trace[1], virtualEvaluationPoints, newPos, 10,
                                   admitted[1] + 1)
       IN  /\ trace' = [trace EXCEPT ![1] = r.self]
           /\ virtualEvaluationPoints' = r.vep
           /\ admitted' = [admitted EXCEPT ![1] = IF r.self.points # trace[1].points
                                                  THEN @ + 1 ELSE @]
           /\ last' = Called("processNewPosition", 1, newPos, trace[1], r.self)
    /\ UNCHANGED << result, calls, queries >>

NextDrive == \E step \in DriveSteps, first \in {0, 1} : Drive(step, first)

SpecDrive == Init /\ [][NextDrive]_vars

\* The bounded-history scenario: 20 positions 15 m apart have been fed.
BoundedHistoryFed == cruise.n = 20 /\ cruise.step = 15

\* C11 as stated: after the bounded-history scenario calcNrOfPoints() is
\* TRACE_N_MAX and the oldest admitted points have been evicted.
C11_SixteenPoints ==
    BoundedHistoryFed
    => /\ calcNrOfPoints(trace[1]) = TRACE_N_MAX
       /\ admitted[1] > TRACE_N_MAX

\* C11, amended: after the bounded-history scenario the trace holds 2
\* points, the seed and the one position admitted when the driven distance
\* reached TRACE_MAX_DIST, and nothing has been evicted.
C11_TwoPoints ==
    BoundedHistoryFed
    => /\ calcNrOfPoints(trace[1]) = 2
       /\ admitted[1] = 2
       /\ trace[1].points[2].pos = Vec(0, 0)
       /\ getDistance(trace[1].points[1].pos, Vec(0, 0)) >= (TRACE_MAX_DIST - 15) * Res
       /\ virtualEvaluationPoints = << >>

\* The bounded-history scenario has been fed in full.
C11_Witness == BoundedHistoryFed /\ last.op = "processNewPosition" /\ Len(fed) = 20

(***************************************************************************)
(* Specification SpecTurn: trace 1, seeded at (0, 0), is fed up to         *)
(* MaxFeeds positions, in any order: the two of the turn and two farther   *)
(* along each of its legs.                                                 *)
(***************************************************************************)
TurnPositions == { Vec(0, 20), Vec(20, 20), Vec(0, 50), Vec(50, 20) }

TurnFed == << Vec(0, 20), Vec(20, 20) >>

NextTurn == \E p \in TurnPositions, v \in Speeds : Feed(p, v)

SpecTurn == Init /\ [][NextTurn]_vars

\* C12 as stated: after (0,20) and (20,20) have been fed the corner has
\* been admitted and calcNrOfPoints() is 3.
C12_CornerAdmitted == fed = TurnFed => calcNrOfPoints(trace[1]) = 3

\* C12, amended: after (0,20) and (20,20) have been fed no point has been
\* admitted: calcNrOfPoints() is 1, the trace holds the seed alone.
C12_NoCornerAdmitted ==
    fed = TurnFed
    => /\ calcNrOfPoints(trace[1]) = 1
       /\ admitted[1] = 1
       /\ trace[1].points[1].pos = Vec(0, 0)
       /\ trace[1].currentPos = Vec(20, 20)

\* The two positions of the turn have been fed.
C12_Witness == fed = TurnFed /\ last.op = "processNewPosition" /\ last.pos = Vec(20, 20)


(***************************************************************************)
(* Specification SpecShapes: contains is asked of circles and of           *)
(* rectangles whose edge p1 - p2 points along +Y (heading 0, where         *)
(* math.sin and math.cos are exact) for the points of a grid.              *)
(***************************************************************************)
ShapeXs == { -11, -10, -6, -5, -3, 0, 3, 5, 10, 12, 15, 16 }

ShapeYs == { -1, 0, 10, 11, 12, 50, 100, 101 }

ShapePoints == { Vec(x, y) : x \in ShapeXs, y \in ShapeYs }

ShapeRectangles ==
    { Rectangle(Vec(0, 0), Vec(0, 100), 10 * Res),
      Rectangle(Vec(-5, -5), Vec(-5, 130), 10 * Res),
      Rectangle(Vec(5, 0), Vec(5, 100), 20 * Res) }

ShapeCircles ==
    { Circle(Vec(10, 10), 5 * Res), Circle(Vec(10, 10), 1 * Res),
      Circle(Vec(0, 0), 10 * Res), Circle(Vec(-5, 50), 200 * Res) }

\* area.contains(p.X, p.Y) for a Rectangle.
RectangleQuery(area, p) ==
    /\ result' = [kind |-> "bool", value |-> RectangleContains(area, p[1], p[2])]
    /\ last' = [op |-> "Rectangle.contains", area |-> area, pos |-> p]
    /\ UNCHANGED << trace, virtualEvaluationPoints, admitted, fed, calls, cruise, queries >>

\* area.contains(p.X, p.Y) for a Circle.
CircleQuery(area, p) ==
    /\ result' = [kind |-> "bool", value |-> CircleContains(area, p[1], p[2])]
    /\ last' = [op |-> "Circle.contains", area |-> area, pos |-> p]
    /\ UNCHANGED << trace, virtualEvaluationPoints, admitted, fed, calls, cruise, queries >>

NextShapes ==
    \/ \E r \in ShapeRectangles, p \in ShapePoints : RectangleQuery(r, p)
    \/ \E c \in ShapeCircles, p \in ShapePoints \cup { Vec(10, 10), Vec(-5, 50) } :
           CircleQuery(c, p)

SpecShapes == Init /\ [][NextShapes]_vars

\* The rectangle of the scenario "Rectangle along +Y".
RectangleAlongY == Rectangle(Vec(0, 0), Vec(0, 100), 10 * Res)

\* C13 as stated: for Rectangle(p1=(0,0), p2=(0,100), width=10)
\* contains(3,50) is true, contains(-6,50) is false, contains(0,-1) is false.
C13_RegionEast ==
    (last.op = "Rectangle.contains" /\ last.area = RectangleAlongY)
    => /\ last.pos = Vec(3, 50) => result.value = TRUE
       /\ last.pos = Vec(-6, 50) => result.value = FALSE
       /\ last.pos = Vec(0, -1) => result.value = FALSE

\* C13, amended: for Rectangle(p1=(0,0), p2=(0,100), width=10) the region
\* given by getP3/getP4 lies west of the edge p1 -> p2: contains(x, y) is
\* true exactly for -10 < x <= 0 and 0 < y <= 100, so contains(3,50) is
\* false, contains(-6,50) is true and contains(0,-1) is false.
C13_RegionWest ==
    (last.op = "Rectangle.contains" /\ last.area = RectangleAlongY)
    => /\ result.value = ( /\ -10 * Res < last.pos[1] /\ last.pos[1] <= 0
                           /\ 0 < last.pos[2] /\ last.pos[2] <= 100 * Res )
       /\ last.pos = Vec(3, 50) => result.value = FALSE
       /\ last.pos = Vec(-6, 50) => result.value = TRUE
       /\ last.pos = Vec(0, -1) => result.value = FALSE

\* contains(-6, 50) has been asked of the rectangle of the scenario.
C13_Witness ==
    /\ last.op = "Rectangle.contains"
    /\ last.area = RectangleAlongY
    /\ last.pos = Vec(-6, 50)
    /\ result.value = TRUE

\* C14: Circle.contains(x, y) is true iff the distance of (x, y) to the
\* center is at most the radius, the boundary included: for
\* Circle((10,10), 5) contains(12,12) and contains(15,10) are true and
\* contains(16,10) is false; the center is contained for every radius > 0.
C14_CircleInclusive ==
    last.op = "Circle.contains"
    => LET dx == last.pos[1] - last.area.center[1]
           dy == last.pos[2] - last.area.center[2]
           r == last.area.radius
       IN  /\ result.value = (dx * dx + dy * dy <= r * r)
           /\ (last.pos = last.area.center /\ r > 0) => result.value = TRUE
           /\ last.area = Circle(Vec(10, 10), 5 * Res)
                 => /\ last.pos = Vec(12, 12) => result.value = TRUE
                    /\ last.pos = Vec(15, 10) => result.value = TRUE
                    /\ last.pos = Vec(16, 10) => result.value = FALSE

\* contains(15, 10) has been asked of Circle((10,10), 5): a point of the
\* boundary.
C14_Witness ==
    /\ last.op = "Circle.contains"
    /\ last.area = Circle(Vec(10, 10), 5 * Res)
    /\ last.pos = Vec(15, 10)
    /\ result.value = TRUE


(***************************************************************************)
(* Specification SpecEval: the traces are given a short limit, points are  *)
(* forced, so that evicted points reach the class list, and the evaluation *)
(* points are asked for.                                                   *)
(***************************************************************************)
GetEvaluationPoints(t) ==
    /\ queries < MaxQueries
    /\ queries' = queries + 1
    /\ LET r == getEvaluationPoints(trace[t], virtualEvaluationPoints)
       IN  /\ trace' = [trace EXCEPT ![t] = r.self]
           /\ result' = r.ret
    /\ last' = [op |-> "getEvaluationPoints", t |-> t, points |-> trace[t].points,
                vep |-> virtualEvaluationPoints]
    /\ UNCHANGED << virtualEvaluationPoints, admitted, fed, calls, cruise >>

NextEval ==
    \/ \E t \in TraceIds, n \in OverrideValues : OverwriteMaxTraceLength(t, n)
    \/ \E t \in TraceIds, p \in ForcePositions, v \in Speeds : ForcePointCreation(t, p, v)
    \/ \E t \in TraceIds : GetEvaluationPoints(t)

SpecEval == Init /\ [][NextEval]_vars

\* C15: getEvaluationPoints() returns the live points followed by the
\* virtual evaluation points and leaves the live point list as it was, so
\* that calcNrOfPoints() is still at most the TRACE_N_MAX in force.
C15_ConcatenationNoEffect ==
    last.op = "getEvaluationPoints"
    => /\ result = [kind |-> "list", value |-> last.points \o last.vep]
       /\ getPoints(trace[last.t]) = last.points
       /\ calcNrOfPoints(trace[last.t]) <= trace[last.t].nmax

(***************************************************************************)
(* Specification SpecRef: the straight drive of forced points on trace 1,  *)
(* then positions are fed, points are forced and the reference position is *)
(* set, on either trace.                                                   *)
(***************************************************************************)
RefFeedPositions == { Vec(0, 0), Vec(0, 250) }

NextRef ==
    \/ \E step \in CruiseSteps : Cruise(step)
    \/ \E t \in TraceIds, p \in RefFeedPositions, v \in Speeds : ProcessNewPosition(t, p, v)
    \/ \E t \in TraceIds, p \in ForcePositions, v \in Speeds : ForcePointCreation(t, p, v)
    \/ \E t \in TraceIds, p \in AreaReferencePositions : SetReferencePosition(t, p)

SpecRef == Init /\ [][NextRef]_vars

\* C16: getReferencePosition() is the constructor's initial position at
\* first; a call of setReferencePosition makes it the value passed, and no
\* other call, processNewPosition and forcePointCreation with their
\* evictions included, changes it.
C16_ReferenceOnlySet ==
    /\ \A t \in TraceIds : getReferencePosition(trace[t]) = StartPos(t)
    /\ [][ \A t \in TraceIds :
               getReferencePosition(trace[t])' =
                   IF last'.op = "setReferencePosition" /\ last'.t = t
                   THEN last'.pos
                   ELSE getReferencePosition(trace[t]) ]_vars

\* A forced point evicted the oldest one on a trace whose reference
\* position had been set away from the initial position.
C16_Witness ==
    /\ last.op = "forcePointCreation"
    /\ last.evicted
    /\ getReferencePosition(trace[last.t]) # StartPos(last.t)
    /\ getReferencePosition(trace[last.t]) \in AreaReferencePositions


(***************************************************************************)
(* Specification SpecQuality: the combined match quality is computed for   *)
(* offsets and heading deltas inside the matching gate and for prior       *)
(* matches of several qualities and distances.                             *)
(***************************************************************************)
QualityOffsets == { 0, 5 * Res, 10 * Res, MATCH_MAX_OFFSET * Res }
QualityHeadingDeltas == { 0, 500000, MATCH_MAX_HEADINGDELTA }
QualityPriorQualities == { 0, QOne \div 4, 5650, QOne }
QualityPriorDistances ==
    { 0, 5, 10 * Res, MATCH_DIST_SMOOTH * Res - 1, MATCH_DIST_SMOOTH * Res,
      MATCH_DIST_SMOOTH * Res + 50, DEFAULT_MATCH_DISTANCE * Res }

CalcCombinedMatchQuality(offset, hddelta, oldquality, oldegodist) ==
    /\ queries < MaxQueries
    /\ queries' = queries + 1
    /\ result' = [kind |-> "float",
                  value |-> calcCombinedMatchQuality(offset, hddelta, oldquality, oldegodist)]
    /\ last' = [op |-> "calcCombinedMatchQuality", offset |-> offset, hddelta |-> hddelta,
                oldquality |-> oldquality, oldegodist |-> oldegodist]
    /\ UNCHANGED << trace, virtualEvaluationPoints, admitted, fed, calls, cruise >>

NextQuality ==
    \E offset \in QualityOffsets, hddelta \in QualityHeadingDeltas,
       oldquality \in QualityPriorQualities, oldegodist \in QualityPriorDistances :
        CalcCombinedMatchQuality(offset, hddelta, oldquality, oldegodist)

SpecQuality == Init /\ [][NextQuality]_vars

\* C17: for a prior distance in [0, MATCH_DIST_SMOOTH] the combined
\* quality lies between the smaller and the larger of the prior quality
\* and the single match quality; for a prior distance of MATCH_DIST_SMOOTH
\* or more it is the single match quality.
C17_SmoothingBound ==
    last.op = "calcCombinedMatchQuality"
    => LET single == calcMatchQuality(last.offset, last.hddelta)
       IN  /\ (0 <= last.oldegodist /\ last.oldegodist <= MATCH_DIST_SMOOTH * Res)
              => /\ Min(last.oldquality, single) <= result.value
                 /\ result.value <= Max(last.oldquality, single)
           /\ last.oldegodist >= MATCH_DIST_SMOOTH * Res => result.value = single

\* A prior match half the smoothing distance away with a quality other
\* than the single one: the combined quality is strictly between the two.
C17_Witness ==
    /\ last.op = "calcCombinedMatchQuality"
    /\ last.oldegodist = 10 * Res
    /\ LET single == calcMatchQuality(last.offset, last.hddelta)
       IN  /\ Min(last.oldquality, single) < result.value
           /\ result.value < Max(last.oldquality, single)


(***************************************************************************)
(* Specification SpecHeading: points are forced on either trace and the    *)
(* current trace heading is asked for, before and after.                   *)
(***************************************************************************)
HeadingForcePositions == { Vec(0, 15), Vec(20, 20), Vec(-30, 0) }

NextHeading ==
    \/ \E t \in TraceIds, p \in HeadingForcePositions, v \in Speeds :
           ForcePointCreation(t, p, v)
    \/ \E t \in TraceIds : CalcCurrentTraceHeading(t)

SpecHeading == Init /\ [][NextHeading]_vars

\* C18: calcCurrentTraceHeading() raises NotEnoughTracePointsException
\* exactly when the trace has fewer than 2 points, returns the direction
\* from points[1] to points[0] otherwise, and in neither case changes a
\* trace or the shared list of virtual evaluation points.
C18_HeadingOrRaise ==
    /\ [](last.op = "calcCurrentTraceHeading"
          => LET self == trace[last.t]
             IN  IF calcNrOfPoints(self) < 2
                 THEN result = [kind |-> "raise",
                                exception |-> "NotEnoughTracePointsException"]
                 ELSE result = [kind |-> "float",
                                value |-> getDirection(self.points[2].pos,
                                                       self.points[1].pos)])
    /\ [][last'.op = "calcCurrentTraceHeading"
          => /\ trace' = trace
             /\ virtualEvaluationPoints' = virtualEvaluationPoints]_vars

\* The heading of a trace of two points or more, the newest of them to the
\* east of the one before it.
C18_Witness ==
    /\ last.op = "calcCurrentTraceHeading"
    /\ calcNrOfPoints(trace[last.t]) >= 2
    /\ trace[last.t].points[1].pos[1] > trace[last.t].points[2].pos[1]
    /\ result.kind = "float"
    /\ result.value > PI


(***************************************************************************)
(* Specification SpecOther: points are forced on the two traces, and one   *)
(* trace is matched to the other.                                          *)
(***************************************************************************)
OtherForcePositions == { Vec(15, 0), Vec(50, 15), Vec(50, 30) }

MatchToOtherTrace(t, u) ==
    /\ queries < MaxQueries
    /\ queries' = queries + 1
    /\ result' = [kind |-> "float", value |-> matchToOtherTrace(trace[t], trace[u])]
    /\ last' = [op |-> "matchToOtherTrace", t |-> t, other |-> u]
    /\ UNCHANGED << trace, virtualEvaluationPoints, admitted, fed, calls, cruise >>

NextOther ==
    \/ \E t \in TraceIds, p \in OtherForcePositions, v \in Speeds :
           ForcePointCreation(t, p, v)
    \/ \E t \in TraceIds, u \in TraceIds : MatchToOtherTrace(t, u)

SpecOther == Init /\ [][NextOther]_vars

\* C19: matchToOtherTrace(other) is in [0,1]; it is 0 when no point of the
\* other trace, shifted by the difference of the reference positions, was
\* matched to an edge, and otherwise the share of matched points among the
\* points of the other trace times (1 - average offset / MATCH_MAX_OFFSET).
C19_ShareTimesOffsetFactor ==
    last.op = "matchToOtherTrace"
    => LET self == trace[last.t]
           atrace == trace[last.other]
           w == WalkOtherTrace(self, atrace,
                    << getReferencePosition(atrace)[1] - getReferencePosition(self)[1],
                       getReferencePosition(atrace)[2] - getReferencePosition(self)[2] >>)
       IN  /\ 0 <= result.value /\ result.value <= QOne
           /\ result.value =
                  IF w.totalmatches = 0 THEN 0
                  ELSE (w.totalmatches * OffsetFactor(w)) \div calcNrOfPoints(atrace)


(***************************************************************************)
(* Specification SpecEvict: the straight drive of forced points on trace   *)
(* 1, with steps that leave the full trace shorter than, just longer than  *)
(* and much longer than MIN_EVALUATION_TRACE_LENGHT, then feeds, forced    *)
(* points and a new limit on either trace.                                 *)
(***************************************************************************)
EvictSteps == { 15, 67, 100 }

NextEvict ==
    \/ \E step \in EvictSteps : Cruise(step)
    \/ \E t \in TraceIds, p \in RefFeedPositions, v \in Speeds : ProcessNewPosition(t, p, v)
    \/ \E t \in TraceIds, p \in ForcePositions, v \in Speeds : ForcePointCreation(t, p, v)
    \/ \E t \in TraceIds, n \in OverrideValues : OverwriteMaxTraceLength(t, n)

SpecEvict == Init /\ [][NextEvict]_vars

\* C20: an admission on a trace of exactly TRACE_N_MAX points removes the
\* oldest point and puts the new one at index 0, and the removed point is
\* prepended to the virtual evaluation points iff the length of the live
\* trace before the removal is below MIN_EVALUATION_TRACE_LENGHT; an
\* admission on a trace of fewer points removes nothing.
C20_EvictOldestKeepIfShort ==
    [][\A t \in TraceIds :
          (IsAdmissionCall(last') /\ last'.t = t /\ last'.admitted
             /\ (calls' # calls \/ cruise' # cruise)) =>
              LET old == trace[t].points
                  new == trace'[t].points
              IN  /\ new[1].seq = admitted'[t] /\ admitted'[t] = admitted[t] + 1
                  /\ Len(old) = trace[t].nmax =>
                        /\ Tail(new) = SubSeq(old, 1, Len(old) - 1)
                        /\ virtualEvaluationPoints' =
                               IF calcTraceLength(trace[t]) < MIN_EVALUATION_TRACE_LENGHT * Res
                               THEN << old[Len(old)] >> \o virtualEvaluationPoints
                               ELSE virtualEvaluationPoints
                  /\ Len(old) < trace[t].nmax =>
                        /\ Tail(new) = old
                        /\ virtualEvaluationPoints' = virtualEvaluationPoints]_vars

\* An eviction on the full trace of the 67 m drive, 1005 m long with its
\* oldest point and 938 m without: the point is not kept.
C20_Witness ==
    /\ IsAdmissionCall(last) /\ last.evicted
    /\ cruise.step = 67
    /\ calcNrOfPoints(trace[1]) = TRACE_N_MAX
    /\ trace[1].nmax = TRACE_N_MAX
    /\ virtualEvaluationPoints = << >>
    /\ calcTraceLength(trace[1]) >= MIN_EVALUATION_TRACE_LENGHT * Res


(***************************************************************************)
(* Specification SpecTube: positions are fed to trace 1: steps north of    *)
(* 30 m and more than 200 m, a far position to the north-west with a step  *)
(* of 5 m behind it, and a turn back to the +Y axis.                       *)
(***************************************************************************)
TubePositions ==
    { Vec(0, 0), Vec(0, 30), Vec(0, 250), Vec(-100, 90), Vec(-100, 95), Vec(0, 100) }

NextTube == \E p \in TubePositions, v \in Speeds : Feed(p, v)

SpecTube == Init /\ [][NextTube]_vars

\* The three reasons of processNewPosition to admit the current position
\* cur of a trace whose newest point is at lasttp, on the new position.
DistanceRule(odometer, cur, newPos) ==
    odometer + getDistance(cur, newPos) >= TRACE_MAX_DIST * Res

HeadingRule(lasttp, cur, newPos) ==
    Abs(getDirection(lasttp, newPos) - getDirection(cur, newPos)) > TRACE_MAX_HEDINGDELTA

TubeRule(lasttp, alphamin, alphamax, newPos) ==
    \/ getDirection(lasttp, newPos) < alphamin
    \/ getDirection(lasttp, newPos) > alphamax

\* C21: on a trace with a point, a current position and an odometer of
\* TRACE_MIN_DIST or more, processNewPosition admits a point iff the
\* distance rule, the heading rule or the tube rule holds; the point
\* admitted is the current position held before the call, and the odometer
\* afterwards is the length of the edge from it to the new position.
C21_AdmissionRule ==
    [][( /\ last'.op = "processNewPosition" /\ fed' # fed
         /\ trace[1].currentPos # None
         /\ Len(trace[1].points) >= 1
         /\ trace[1].odometer >= TRACE_MIN_DIST * Res ) =>
          LET old == trace[1]
              new == trace'[1]
              rule == \/ DistanceRule(old.odometer, old.currentPos, last'.pos)
                      \/ HeadingRule(old.points[1].pos, old.currentPos, last'.pos)
                      \/ TubeRule(old.points[1].pos, old.alphamin, old.alphamax, last'.pos)
          IN  /\ (new.points # old.points) <=> rule
              /\ rule => /\ new.points[1].pos = old.currentPos
                         /\ Tail(new.points) = old.points
                         /\ new.odometer = getDistance(old.currentPos, last'.pos)
              /\ ~rule => new.odometer = old.odometer + getDistance(old.currentPos, last'.pos)]_vars

\* A point admitted by the tube rule alone: the driven distance is short of
\* TRACE_MAX_DIST and the heading delta within TRACE_MAX_HEDINGDELTA.
C21_Witness ==
    /\ last.op = "processNewPosition" /\ last.admitted
    /\ last.odo >= TRACE_MIN_DIST * Res
    /\ last.cur # last.pos
    /\ trace[1].points[1].pos = last.cur
    /\ ~DistanceRule(last.odo, last.cur, last.pos)
    /\ ~HeadingRule(trace[1].points[2].pos, last.cur, last.pos)


\* C22: after a processNewPosition call that leaves the new position more
\* than MATCH_MAX_OFFSET from the newest trace point, alphamin is the larger
\* of the alphamin before (0 after an admission in the call) and dir - beta,
\* and alphamax the smaller of the alphamax before (2 pi after an admission)
\* and dir + beta, with beta = asin(TRACE_MAX_OFFSET / dist).
C22_TubeNarrowedByBeta ==
    [][( /\ last'.op = "processNewPosition" /\ fed' # fed
         /\ trace[1].currentPos # None ) =>
          LET old == trace[1]
              new == trace'[1]
              prevmin == IF last'.admitted THEN 0 ELSE old.alphamin
              prevmax == IF last'.admitted THEN TwoPI ELSE old.alphamax
              lasttp == new.points[1].pos
              dist == getDistance(lasttp, last'.pos)
              dir == getDirection(lasttp, last'.pos)
              beta == Asin(TRACE_MAX_OFFSET * Res, dist)
          IN  dist > MATCH_MAX_OFFSET * Res =>
                  /\ new.alphamin = Max(prevmin, dir - beta)
                  /\ new.alphamax = Min(prevmax, dir + beta)]_vars


(***************************************************************************)
(* Specification SpecReset: positions are fed and points are forced, on    *)
(* either trace.                                                           *)
(***************************************************************************)
NextReset ==
    \/ \E t \in TraceIds, p \in FeedPositions, v \in Speeds : ProcessNewPosition(t, p, v)
    \/ \E t \in TraceIds, p \in ForcePositions, v \in Speeds : ForcePointCreation(t, p, v)

SpecReset == Init /\ [][NextReset]_vars

\* C23: a trace starts with odometer 0 and the tube [0, 2 pi]; a
\* processNewPosition call that admits no point does not lower alphamin nor
\* raise alphamax; a forced point leaves odometer 0 and the tube [0, 2 pi];
\* a point admitted by processNewPosition leaves the odometer at the edge to
\* the new position and each tube bound at its open value or at the bound
\* that the new position gives, whatever the tube was before.
C23_TubeShrinksOrResets ==
    /\ \A t \in TraceIds :
           trace[t].odometer = 0 /\ trace[t].alphamin = 0 /\ trace[t].alphamax = TwoPI
    /\ [][\A t \in TraceIds :
              (IsAdmissionCall(last') /\ last'.t = t
                 /\ (calls' # calls \/ cruise' # cruise)) =>
                  LET old == trace[t]
                      new == trace'[t]
                      lasttp == new.points[1].pos
                      dir == getDirection(lasttp, last'.pos)
                      beta == Asin(TRACE_MAX_OFFSET * Res, getDistance(lasttp, last'.pos))
                  IN  IF ~last'.admitted
                      THEN new.alphamin >= old.alphamin /\ new.alphamax <= old.alphamax
                      ELSE IF last'.op = "forcePointCreation"
                      THEN new.odometer = 0 /\ new.alphamin = 0 /\ new.alphamax = TwoPI
                      ELSE /\ new.odometer = getDistance(old.currentPos, last'.pos)
                           /\ new.alphamin \in { 0, dir - beta }
                           /\ new.alphamax \in { TwoPI, dir + beta }]_vars

\* A point forced on a trace that had been fed positions and had driven
\* more than MATCH_MAX_OFFSET since its newest point: the odometer is 0 and
\* the tube is open.
C23_Witness ==
    /\ last.op = "forcePointCreation" /\ last.admitted
    /\ last.cur # None
    /\ last.odo > MATCH_MAX_OFFSET * Res
    /\ trace[last.t].odometer = 0
    /\ trace[last.t].alphamin = 0 /\ trace[last.t].alphamax = TwoPI


\* C24: once overwriteMaxTraceLength has set a TRACE_N_MAX below the number
\* of points of the trace, the next admission leaves the trace with at most
\* that TRACE_N_MAX points.
C24_LoweredLimitEnforced ==
    [][\A t \in TraceIds :
          ( /\ IsAdmissionCall(last') /\ last'.t = t /\ last'.admitted
            /\ (calls' # calls \/ cruise' # cruise)
            /\ trace[t].nmax < calcNrOfPoints(trace[t]) ) =>
              calcNrOfPoints(trace'[t]) <= trace'[t].nmax]_vars


\* C25: in every state reached through processNewPosition and
\* forcePointCreation the length of the live trace, the sum of the
\* distances of consecutive points, is at most TRACE_LENGTH_MAX.
C25_LengthBounded ==
    \A t \in TraceIds : calcTraceLength(trace[t]) <= TRACE_LENGTH_MAX * Res


\* C26: whenever processNewPosition admits a point, the odometer it found,
\* the distance driven from the trace point before to the point admitted,
\* is below TRACE_MAX_DIST.
C26_AdmittedWithinMaxDist ==
    (last.op = "processNewPosition" /\ last.admitted) => last.odo < TRACE_MAX_DIST * Res


(***************************************************************************)
(* Specification SpecCorners: rectangles over edges in eight directions    *)
(* are asked for their heading and their derived corners.                  *)
(***************************************************************************)
CornerPoints ==
    { Vec(0, 0), Vec(0, 100), Vec(100, 100), Vec(100, 0), Vec(-100, 100), Vec(-100, 0) }

CornerWidths == { 10 * Res, 20 * Res }

RectangleCorners(area) ==
    /\ queries < MaxQueries
    /\ queries' = queries + 1
    /\ result' = [kind |-> "corners", heading |-> getHeading(area),
                  p3 |-> getP3(area), p4 |-> getP4(area)]
    /\ last' = [op |-> "Rectangle.getP3", area |-> area]
    /\ UNCHANGED << trace, virtualEvaluationPoints, admitted, fed, calls, cruise >>

NextCorners ==
    \E p1 \in CornerPoints, p2 \in CornerPoints, width \in CornerWidths :
        p1 # p2 /\ RectangleCorners(Rectangle(p1, p2, width))

SpecCorners == Init /\ [][NextCorners]_vars

\* The scalar product of b - a and d - c.
Dot(a, b, c, d) == (b[1] - a[1]) * (d[1] - c[1]) + (b[2] - a[2]) * (d[2] - c[2])

\* C27: the heading of a rectangle is Trace.getDirection(p1, p2), and the
\* edges p2 -> p3 and p1 -> p4 are perpendicular to p1 -> p2 (up to the
\* rounding of the corners to the resolution).
C27_HeadingIsDirection ==
    last.op = "Rectangle.getP3"
    => LET r == last.area
           slack == Abs(r.p2[1] - r.p1[1]) + Abs(r.p2[2] - r.p1[2])
       IN  /\ result.heading = getDirection(r.p1, r.p2)
           /\ Abs(Dot(r.p1, r.p2, r.p2, result.p3)) <= slack
           /\ Abs(Dot(r.p1, r.p2, r.p1, result.p4)) <= slack


\* C28: in every state reached through the constructor and
\* processNewPosition the tube is not inverted: alphamin <= alphamax.
C28_TubeNotInverted ==
    \A t \in TraceIds : trace[t].alphamin <= trace[t].alphamax


\* C29: a trace is never empty: after any sequence of processNewPosition,
\* forcePointCreation and overwriteMaxTraceLength calls it holds a point.
C29_NeverEmpty ==
    \A t \in TraceIds : calcNrOfPoints(trace[t]) >= 1

\* An admission on a trace whose limit was lowered to 2 evicted a point and
\* left 2 points.
C29_Witness ==
    /\ IsAdmissionCall(last) /\ last.evicted
    /\ trace[last.t].nmax = 2
    /\ calcNrOfPoints(trace[last.t]) = 2


(***************************************************************************)
(* Specification SpecGate: trace 1 gets a second point a little to the     *)
(* west or to the east of north, and positions south and north of the      *)
(* reference position are matched to it.                                   *)
(***************************************************************************)
GateForcePositions == { Vec(-10, 100), Vec(10, 100) }

GatePositions == { Vec(-10, -100), Vec(10, -100), Vec(-10, 50) }

GateAreas == { Circle(Vec(0, 0), 200 * Res) }

NextGate ==
    \/ \E p \in GateForcePositions, v \in Speeds : ForcePointCreation(1, p, v)
    \/ \E p \in GatePositions, h \in MatchHeadings, a \in GateAreas, old \in {None, result} :
           MatchToPosition(1, p, h, a, old)

SpecGate == Init /\ [][NextGate]_vars

\* The smaller of the two arcs between two directions in [0, 2 pi].
ArcBetween(a, b) == Min(Abs(a - b), TwoPI - Abs(a - b))

\* C30: matchToPosition answers NO_MATCH_HEADING only when the arc between
\* the direction from the position to the reference position and the
\* current trace heading exceeds pi/2.
C30_HeadingGateModular ==
    ( /\ last.op = "matchToPosition"
      /\ result.kind = "TraceMatch"
      /\ result.status = STATUS_NO_MATCH_HEADING )
    => ArcBetween(getDirection(last.pos, getReferencePosition(trace[last.t])),
                  calcCurrentTraceHeading(trace[last.t])) > HalfPI


=============================================================================
